---- MODULE Spec2Model ----
(***************************************************************************)
(* A model of src/src/util.ts (mongo-object utilities).                    *)
(*                                                                         *)
(* JavaScript strings are sequences of one-character strings, so that the  *)
(* string functions (split, slice, substring, regular-expression replace,  *)
(* parseInt) are computed character by character as the code computes      *)
(* them.  Documents are nested values: every value is a record             *)
(*   [t, s, len, m]                                                        *)
(* with t the kind ("undef", "null", "str", "num", "bool", "obj", "arr"),  *)
(* s the characters of a string (or the digits of a number), m the own     *)
(* enumerable properties of a container (property name -> value) and len   *)
(* the length property of an array.  An array with a hole simply has no    *)
(* entry for that index in m.                                              *)
(***************************************************************************)
EXTENDS Integers, Sequences, FiniteSets, TLC

VARIABLES
  pc,               \* position of the caller: which call has returned
  key,              \* string argument `key`
  affectedKey,      \* string argument `affectedKey`
  wrapAll,          \* argument `wrapAll` of keyToPosition
  ret,              \* value returned by the string function called
  ret2,             \* value returned by makeKeyGeneric applied to ret
  doc,              \* argument `doc` of cleanNulls / `flatDoc` of reportNulls
  isArray,          \* argument `isArray` of cleanNulls
  keepEmptyStrings, \* argument `keepEmptyStrings`
  newDoc,           \* value returned by cleanNulls / reportNulls
  newDoc2,          \* value returned by cleanNulls applied to newDoc
  obj,              \* the caller-owned container handed to expandKey
  objBefore,        \* obj as it was when expandKey was called
  val,              \* argument `val` of expandKey
  threw             \* whether the last expandKey call raised a TypeError

vars == <<pc, key, affectedKey, wrapAll, ret, ret2, doc, isArray, keepEmptyStrings,
          newDoc, newDoc2, obj, objBefore, val, threw>>

-----------------------------------------------------------------------------
(* Bounds of the model.                                                    *)

MaxKeyLen == 5      \* longest arbitrary string given to makeKeyGeneric
MaxSegs == 4        \* most segments of a dotted path
MaxAffLen == 3      \* longest key given to genericKeyAffectsOtherGenericKey
MaxLen == 2         \* longest array in a generated document
MaxDepth == 3       \* most subkeys of a position given to expandKey

-----------------------------------------------------------------------------
(* JavaScript string primitives on character sequences.                    *)

Digits == {"0", "1", "2", "3", "4", "5", "6", "7", "8", "9"}

Min(a, b) == IF a < b THEN a ELSE b
Max(a, b) == IF a > b THEN a ELSE b

\* s.substring(from, to) with 0-based, clamped indices
Substring(s, from, to) ==
  LET f == Max(0, Min(from, Len(s)))
      t == Max(0, Min(to, Len(s)))
  IN  SubSeq(s, Min(f, t) + 1, Max(f, t))

\* s.slice(-n): the last n characters (the whole string when shorter)
SliceLast(s, n) == SubSeq(s, Max(1, Len(s) - n + 1), Len(s))

\* s.slice(0, -n): all but the last n characters
SliceDropLast(s, n) == SubSeq(s, 1, Max(0, Len(s) - n))

\* s.split(sep) for a one-character separator
RECURSIVE SplitFrom(_, _, _, _)
SplitFrom(s, sep, i, piece) ==
  IF i > Len(s) THEN <<piece>>
  ELSE IF s[i] = sep THEN <<piece>> \o SplitFrom(s, sep, i + 1, <<>>)
  ELSE SplitFrom(s, sep, i + 1, Append(piece, s[i]))

Split(s, sep) == SplitFrom(s, sep, 1, <<>>)

\* pieces.join(sep)
RECURSIVE Join(_, _)
Join(pieces, sep) ==
  IF Len(pieces) = 0 THEN <<>>
  ELSE IF Len(pieces) = 1 THEN pieces[1]
  ELSE pieces[1] \o <<sep>> \o Join(Tail(pieces), sep)

\* all strings over alphabet A of length at most n
RECURSIVE StringsUpTo(_, _)
StringsUpTo(A, n) ==
  IF n = 0 THEN {<<>>}
  ELSE LET shorter == StringsUpTo(A, n - 1)
       IN  shorter \cup {Append(s, c) : s \in shorter, c \in A}

\* all sequences of 1..n elements of S
RECURSIVE SeqsUpTo(_, _)
SeqsUpTo(S, n) ==
  IF n = 0 THEN {}
  ELSE LET shorter == SeqsUpTo(S, n - 1)
       IN  {<<x>> : x \in S} \cup shorter \cup {Append(q, x) : q \in shorter, x \in S}

-----------------------------------------------------------------------------
(* genericKeyAffectsOtherGenericKey, util.ts 93-110.                       *)

\* faulty variant: the ".$" rule tests a prefix instead of equality
genericKeyAffectsOtherGenericKeyPrefix(k, affected) ==
  \/ affected = k
  \/ Substring(affected, 0, Len(k) + 1) = k \o <<".">>
  \/ /\ SliceLast(k, 2) = <<".", "$">>
     /\ Substring(affected, 0, Len(k) - 2) = SliceDropLast(k, 2)

genericKeyAffectsOtherGenericKey(k, affected) ==
  \/ affected = k
  \/ Substring(affected, 0, Len(k) + 1) = k \o <<".">>
  \/ /\ SliceLast(k, 2) = <<".", "$">>
     /\ SliceDropLast(k, 2) = affected

-----------------------------------------------------------------------------
(* makeKeyGeneric, util.ts 218-221:                                        *)
(*   key.replace(/\.([0-9]+|\$\[[^\]]*\])(?=\.|$)/g, '.$')                 *)

\* index of the last character of the maximal run of digits starting at i
\* (i - 1 when s[i] is no digit)
RECURSIVE DigitsEnd(_, _)
DigitsEnd(s, i) ==
  IF i <= Len(s) /\ s[i] \in Digits THEN DigitsEnd(s, i + 1) ELSE i - 1

\* index of the first "]" at or after i (0 when there is none)
RECURSIVE FirstClose(_, _)
FirstClose(s, i) ==
  IF i > Len(s) THEN 0
  ELSE IF s[i] = "]" THEN i
  ELSE FirstClose(s, i + 1)

\* the lookahead (?=\.|$) after a match ending at index j
Lookahead(s, j) == j = Len(s) \/ s[j + 1] = "."

\* faulty variant: the lookahead (?=\.|$) is missing
MatchEndNoLookahead(s, i) ==
  IF s[i] # "." THEN 0
  ELSE LET d == DigitsEnd(s, i + 1)
           c == FirstClose(s, i + 3)
       IN  IF d > i THEN d
           ELSE IF /\ i + 2 <= Len(s)
                   /\ s[i + 1] = "$"
                   /\ s[i + 2] = "["
                   /\ c > 0 THEN c
           ELSE 0

\* index of the last character of the regular expression's match starting at
\* index i, 0 when it does not match there.  [0-9]+ is greedy and a shorter
\* run is followed by a digit, so only the maximal run can pass the
\* lookahead; [^\]]* stops at the first "]".
MatchEnd(s, i) ==
  IF s[i] # "." THEN 0
  ELSE LET d == DigitsEnd(s, i + 1)
           c == FirstClose(s, i + 3)
       IN  IF d > i /\ Lookahead(s, d) THEN d
           ELSE IF /\ i + 2 <= Len(s)
                   /\ s[i + 1] = "$"
                   /\ s[i + 2] = "["
                   /\ c > 0
                   /\ Lookahead(s, c) THEN c
           ELSE 0

\* String.prototype.replace with the g flag: scan left to right, resume after
\* each match
RECURSIVE ReplaceAll(_, _)
ReplaceAll(s, i) ==
  IF i > Len(s) THEN <<>>
  ELSE IF MatchEnd(s, i) > 0 THEN <<".", "$">> \o ReplaceAll(s, MatchEnd(s, i) + 1)
  ELSE <<s[i]>> \o ReplaceAll(s, i + 1)

\* faulty variant: the regular expression without the g flag (first match only)
RECURSIVE ReplaceFirst(_, _)
ReplaceFirst(s, i) ==
  IF i > Len(s) THEN <<>>
  ELSE IF MatchEnd(s, i) > 0
       THEN <<".", "$">> \o SubSeq(s, MatchEnd(s, i) + 1, Len(s))
  ELSE <<s[i]>> \o ReplaceFirst(s, i + 1)

makeKeyGenericFirstOnly(k) == ReplaceFirst(k, 1)

makeKeyGeneric(k) == ReplaceAll(k, 1)

-----------------------------------------------------------------------------
(* keyToPosition, util.ts 223-233.                                         *)

RECURSIVE PositionFrom(_, _, _)
PositionFrom(pieces, i, wrap) ==
  IF i > Len(pieces) THEN <<>>
  ELSE (IF i = 1 /\ ~wrap THEN pieces[i] ELSE <<"[">> \o pieces[i] \o <<"]">>)
       \o PositionFrom(pieces, i + 1, wrap)

\* faulty variant: the first piece is wrapped as well
keyToPositionWrapFirst(k, wrap) == PositionFrom(Split(k, "."), 1, TRUE)

keyToPosition(k, wrap) == PositionFrom(Split(k, "."), 1, wrap)

\* the subkeys expandKey reads from a position string, util.ts 249-255:
\* split on "[" and drop one trailing "]" from each piece
StripClose(piece) ==
  IF SliceLast(piece, 1) = <<"]">> THEN SliceDropLast(piece, 1) ELSE piece

Subkeys(k) == LET raw == Split(k, "[") IN [i \in 1..Len(raw) |-> StripClose(raw[i])]

-----------------------------------------------------------------------------
(* Values of the document model.                                           *)

NoProps == <<>>

Undef == [t |-> "undef", s |-> <<>>, len |-> 0, m |-> NoProps]
Null == [t |-> "null", s |-> <<>>, len |-> 0, m |-> NoProps]
Str(chars) == [t |-> "str", s |-> chars, len |-> 0, m |-> NoProps]
Num(digits) == [t |-> "num", s |-> digits, len |-> 0, m |-> NoProps]
False == [t |-> "bool", s |-> <<>>, len |-> 0, m |-> NoProps]
Obj(props) == [t |-> "obj", s |-> <<>>, len |-> 0, m |-> props]
Arr(length, props) == [t |-> "arr", s |-> <<>>, len |-> length, m |-> props]

EmptyObj == Obj(NoProps)
EmptyArr == Arr(0, NoProps)

IsContainer(v) == v.t \in {"obj", "arr"}

DigitChars == <<"0", "1", "2", "3", "4", "5", "6", "7", "8", "9">>

DigitVal(c) == (CHOOSE n \in 1..10 : DigitChars[n] = c) - 1

\* the number a string of digits denotes
RECURSIVE ToNumber(_)
ToNumber(k) ==
  IF Len(k) = 0 THEN 0
  ELSE 10 * ToNumber(SubSeq(k, 1, Len(k) - 1)) + DigitVal(k[Len(k)])

\* the property name of array index n (String(n))
RECURSIVE IndexKey(_)
IndexKey(n) ==
  IF n < 10 THEN <<DigitChars[n + 1]>>
  ELSE Append(IndexKey(n \div 10), DigitChars[(n % 10) + 1])

\* a property name is an array index when it is the canonical decimal form
\* of a number ("0", "7", "12", but not "01")
IsArrayIndex(k) ==
  /\ Len(k) > 0
  /\ \A i \in 1..Len(k) : k[i] \in Digits
  /\ (Len(k) = 1 \/ k[1] # "0")

\* Object.keys(c): own enumerable property names (holes of an array excluded)
ObjectKeys(c) == DOMAIN c.m

\* c[k] read from a container
GetProp(c, k) == IF k \in ObjectKeys(c) THEN c.m[k] ELSE Undef

\* c[k] = v on a container; assigning an index at or past the end of an
\* array moves its length
SetProp(c, k, v) ==
  [c EXCEPT
     !.m = [x \in ObjectKeys(c) \cup {k} |-> IF x = k THEN v ELSE c.m[x]],
     !.len = IF c.t = "arr" /\ IsArrayIndex(k) /\ ToNumber(k) >= c.len
             THEN ToNumber(k) + 1 ELSE c.len]

\* delete c[k]; the length of an array is left as it is
DeleteProp(c, k) == [c EXCEPT !.m = [x \in ObjectKeys(c) \ {k} |-> c.m[x]]]

-----------------------------------------------------------------------------
(* isNullUndefinedOrEmptyString, util.ts 112-118.                          *)

\* faulty variant: the null test is missing
isNullUndefinedOrEmptyStringNoNull(v) ==
  \/ v.t = "undef"
  \/ (v.t = "str" /\ Len(v.s) = 0)

isNullUndefinedOrEmptyString(v) ==
  \/ v.t = "undef"
  \/ v.t = "null"
  \/ (v.t = "str" /\ Len(v.s) = 0)

(* isBasicObject, util.ts 43-45: a plain object, as opposed to an array or  *)
(* a primitive.                                                            *)
isBasicObject(v) == v.t = "obj"

\* Array.isArray
IsArrayValue(v) == v.t = "arr"

(* isEmpty, util.ts 177-203.                                               *)
isEmpty(value) ==
  IF value.t \in {"null", "undef"} THEN TRUE
  ELSE IF value.t = "arr" THEN value.len = 0
  ELSE IF value.t = "str" THEN Len(value.s) = 0
  ELSE ObjectKeys(value) = {}

-----------------------------------------------------------------------------
(* cleanNulls, util.ts 11-36.                                              *)

\* faulty variant: emptiness is tested on the value before it was cleaned
KeepIfNotEmptyOriginal(nd, k, original, cleaned) ==
  IF ~isEmpty(original) THEN SetProp(nd, k, cleaned) ELSE nd

\* util.ts 21 and 24: if (!isEmpty(val)) newDoc[key] = val
KeepIfNotEmpty(nd, k, original, cleaned) ==
  IF ~isEmpty(cleaned) THEN SetProp(nd, k, cleaned) ELSE nd

RECURSIVE cleanNulls(_, _, _)
RECURSIVE CleanKeys(_, _, _, _)

\* the body of the forEach callback, util.ts 18-33
CleanEntry(nd, k, v, keep) ==
  IF ~IsArrayValue(v) /\ isBasicObject(v)
    THEN KeepIfNotEmpty(nd, k, v, cleanNulls(v, FALSE, keep))
  ELSE IF IsArrayValue(v)
    THEN KeepIfNotEmpty(nd, k, v, cleanNulls(v, TRUE, keep))
  ELSE IF ~isNullUndefinedOrEmptyString(v) THEN SetProp(nd, k, v)
  ELSE IF keep /\ v.t = "str" /\ Len(v.s) = 0 THEN SetProp(nd, k, v)
  ELSE nd

\* Object.keys(doc).forEach: each key is handled on its own, so the order in
\* which the keys are visited does not change the result
CleanKeys(nd, d, keys, keep) ==
  IF keys = {} THEN nd
  ELSE LET k == CHOOSE x \in keys : TRUE
       IN  CleanKeys(CleanEntry(nd, k, d.m[k], keep), d, keys \ {k}, keep)

cleanNulls(d, isArr, keep) ==
  CleanKeys(IF isArr THEN EmptyArr ELSE EmptyObj, d, ObjectKeys(d), keep)

-----------------------------------------------------------------------------
(* reportNulls, util.ts 55-77.                                             *)

\* faulty variant: keepEmptyStrings is ignored
IsReportedIgnoringKeep(v, keep) ==
  \/ v.t = "null"
  \/ v.t = "undef"
  \/ (v.t = "str" /\ Len(v.s) = 0)
  \/ (IsArrayValue(v) /\ cleanNulls(v, TRUE, keep).len = 0)

\* util.ts 64-72
IsReported(v, keep) ==
  \/ v.t = "null"
  \/ v.t = "undef"
  \/ (~keep /\ v.t = "str" /\ Len(v.s) = 0)
  \/ (IsArrayValue(v) /\ cleanNulls(v, TRUE, keep).len = 0)

RECURSIVE ReportKeys(_, _, _, _)
ReportKeys(nulls, flatDoc, keys, keep) ==
  IF keys = {} THEN nulls
  ELSE LET k == CHOOSE x \in keys : TRUE
           next == IF IsReported(flatDoc.m[k], keep)
                   THEN SetProp(nulls, k, Str(<<>>)) ELSE nulls
       IN  ReportKeys(next, flatDoc, keys \ {k}, keep)

reportNulls(flatDoc, keep) == ReportKeys(EmptyObj, flatDoc, ObjectKeys(flatDoc), keep)

-----------------------------------------------------------------------------
(* expandKey, util.ts 248-274.                                             *)

\* parseInt(piece, 10) is NaN: after leading blanks and an optional sign the
\* string does not start with a digit (what follows the digits is ignored)
RECURSIVE SkipBlanks(_)
SkipBlanks(piece) ==
  IF Len(piece) > 0 /\ piece[1] = " " THEN SkipBlanks(Tail(piece)) ELSE piece

ParseIntIsNaN(piece) ==
  LET t == SkipBlanks(piece)
      u == IF Len(t) > 0 /\ t[1] \in {"+", "-"} THEN Tail(t) ELSE t
  IN  ~(Len(u) > 0 /\ u[1] \in Digits)

\* faulty variant: util.ts 263 is missing, undefined is stored
AssignLastNoDelete(current, subkey, v) == SetProp(current, subkey, v)

\* util.ts 259-263: current[subkey] = val, then delete when val is undefined
AssignLast(current, subkey, v) ==
  IF v = Undef THEN DeleteProp(SetProp(current, subkey, v), subkey)
  ELSE SetProp(current, subkey, v)

\* util.ts 266-269: fill an unset intermediate location
CreateMissing(current, subkey, nextPiece) ==
  IF GetProp(current, subkey) = Undef
  THEN SetProp(current, subkey, IF ParseIntIsNaN(nextPiece) THEN EmptyObj ELSE EmptyArr)
  ELSE current

\* The loop of util.ts 251-273 from iteration i on, with `current` the value
\* the loop variable refers to.  The result is [threw, v]: v is `current`
\* after the remaining iterations (the loop mutates it in place, so what it
\* does to a child shows in the parent).  A `current` that is no container
\* ends the call: null raises a TypeError at the property access, and the
\* module is strict-mode code, where assigning a property of a number, string
\* or boolean raises a TypeError as well.
RECURSIVE ExpandFrom(_, _, _, _, _)
ExpandFrom(current, raw, subkeys, i, v) ==
  IF ~IsContainer(current) THEN [threw |-> TRUE, v |-> current]
  ELSE IF i = Len(subkeys)
    THEN [threw |-> FALSE, v |-> AssignLast(current, subkeys[i], v)]
  ELSE LET c1 == CreateMissing(current, subkeys[i], raw[i + 1])
           r == ExpandFrom(GetProp(c1, subkeys[i]), raw, subkeys, i + 1, v)
       IN  [threw |-> r.threw, v |-> [c1 EXCEPT !.m[subkeys[i]] = r.v]]

expandKey(v, k, o) == ExpandFrom(o, Split(k, "["), Subkeys(k), 1, v)

-----------------------------------------------------------------------------
(* Inputs.                                                                 *)

\* the array literal [q[1], ..., q[n]]
ArrayOf(q) ==
  Arr(Len(q), [k \in {IndexKey(i - 1) : i \in 1..Len(q)} |-> q[ToNumber(k) + 1]])

\* arrays of at most n elements of S
ArraysOf(S, n) == {ArrayOf(q) : q \in UNION {[1..l -> S] : l \in 0..n}}

\* objects whose keys are among K, with values in S
ObjectsOf(K, S) == {Obj(f) : f \in UNION {[D -> S] : D \in SUBSET K}}

KeyAlphabet == {"a", "0", ".", "$", "[", "]"}

PathSegments ==
  {<<"a">>, <<"b">>, <<"0">>, <<"1", "2">>, <<"1", "a">>, <<"$">>,
   <<"$", "[", "a", "]">>}

\* the keys given to makeKeyGeneric and keyToPosition: every short string
\* over KeyAlphabet and every dotted path of PathSegments
Keys ==
  StringsUpTo(KeyAlphabet, MaxKeyLen)
    \cup {Join(q, ".") : q \in SeqsUpTo(PathSegments, MaxSegs)}

AffectsAlphabet == {"a", "b", "0", "$", "."}

AffectsKeys == StringsUpTo(AffectsAlphabet, MaxAffLen)

Leaves == {Null, Undef, Str(<<>>), Str(<<"x">>), Num(<<"1">>), False}

ObjKeys == {<<"a">>, <<"b">>}

\* values one level deep
Shallow == Leaves \cup ObjectsOf({<<"a">>}, Leaves) \cup ArraysOf(Leaves, MaxLen)

ShallowNarrow == Leaves \cup ObjectsOf({<<"a">>}, Leaves) \cup ArraysOf(Leaves, 1)

\* {a: null, b: "", c: {d: null}, e: [null, 1]}
ExampleDoc ==
  Obj((<<"a">> :> Null) @@ (<<"b">> :> Str(<<>>))
      @@ (<<"c">> :> Obj(<<"d">> :> Null))
      @@ (<<"e">> :> ArrayOf(<<Null, Num(<<"1">>)>>)))

\* the documents given to cleanNulls: objects and arrays nested up to three
\* levels
Docs ==
  {Obj(x.m @@ y.m) : x \in ObjectsOf({<<"a">>}, Shallow),
                     y \in ObjectsOf({<<"b">>}, ShallowNarrow)}
    \cup ArraysOf(ShallowNarrow, MaxLen)
    \cup {Obj(<<"a">> :> x) :
            x \in ObjectsOf({<<"a">>}, Shallow) \cup {ArrayOf(<<y>>) : y \in Shallow}}
    \cup {ExampleDoc}

\* {a: null, b: "x", c: []}
ExampleFlatDoc ==
  Obj((<<"a">> :> Null) @@ (<<"b">> :> Str(<<"x">>)) @@ (<<"c">> :> EmptyArr))

ReportElements ==
  {Null, Undef, Str(<<>>), Str(<<"x">>), EmptyArr, ArrayOf(<<Null>>)}

\* the flat documents given to reportNulls: scalars and arrays as values
FlatDocs ==
  ObjectsOf(ObjKeys, Leaves \cup ArraysOf(ReportElements, MaxLen))
    \cup {ExampleFlatDoc}

-----------------------------------------------------------------------------
(* The callers.  Each specification gives one group of functions its       *)
(* arguments in Init and calls them in its actions.                        *)

\* ---- makeKeyGeneric and keyToPosition

InitKeys ==
  /\ pc = "start"
  /\ key \in Keys
  /\ affectedKey = <<>> /\ wrapAll = FALSE /\ ret = <<>> /\ ret2 = <<>>
  /\ doc = EmptyObj /\ isArray = FALSE /\ keepEmptyStrings = FALSE
  /\ newDoc = EmptyObj /\ newDoc2 = EmptyObj
  /\ obj = EmptyObj /\ objBefore = EmptyObj /\ val = Undef /\ threw = FALSE

\* ret = makeKeyGeneric(key)
MakeKeyGeneric ==
  /\ pc = "start"
  /\ ret' = makeKeyGeneric(key)
  /\ pc' = "generic"
  /\ UNCHANGED <<key, affectedKey, wrapAll, ret2, doc, isArray, keepEmptyStrings,
                 newDoc, newDoc2, obj, objBefore, val, threw>>

\* ret2 = makeKeyGeneric(ret)
MakeKeyGenericAgain ==
  /\ pc = "generic"
  /\ ret2' = makeKeyGeneric(ret)
  /\ pc' = "regeneric"
  /\ UNCHANGED <<key, affectedKey, wrapAll, ret, doc, isArray, keepEmptyStrings,
                 newDoc, newDoc2, obj, objBefore, val, threw>>

\* ret = keyToPosition(key, wrapAll)
KeyToPosition ==
  /\ pc = "start"
  /\ \E w \in BOOLEAN :
       /\ wrapAll' = w
       /\ ret' = keyToPosition(key, w)
  /\ pc' = "position"
  /\ UNCHANGED <<key, affectedKey, ret2, doc, isArray, keepEmptyStrings,
                 newDoc, newDoc2, obj, objBefore, val, threw>>

NextKeys == MakeKeyGeneric \/ MakeKeyGenericAgain \/ KeyToPosition

SpecKeys == InitKeys /\ [][NextKeys]_vars

\* ---- genericKeyAffectsOtherGenericKey

InitAffects ==
  /\ pc = "start"
  /\ key \in AffectsKeys
  /\ affectedKey \in AffectsKeys
  /\ wrapAll = FALSE /\ ret = FALSE /\ ret2 = <<>>
  /\ doc = EmptyObj /\ isArray = FALSE /\ keepEmptyStrings = FALSE
  /\ newDoc = EmptyObj /\ newDoc2 = EmptyObj
  /\ obj = EmptyObj /\ objBefore = EmptyObj /\ val = Undef /\ threw = FALSE

\* ret = genericKeyAffectsOtherGenericKey(key, affectedKey)
GenericKeyAffectsOtherGenericKey ==
  /\ pc = "start"
  /\ ret' = genericKeyAffectsOtherGenericKey(key, affectedKey)
  /\ pc' = "affects"
  /\ UNCHANGED <<key, affectedKey, wrapAll, ret2, doc, isArray, keepEmptyStrings,
                 newDoc, newDoc2, obj, objBefore, val, threw>>

NextAffects == GenericKeyAffectsOtherGenericKey

SpecAffects == InitAffects /\ [][NextAffects]_vars

\* ---- cleanNulls

InitClean ==
  /\ pc = "start"
  /\ doc \in Docs
  /\ isArray \in BOOLEAN
  /\ keepEmptyStrings \in BOOLEAN
  /\ key = <<>> /\ affectedKey = <<>> /\ wrapAll = FALSE /\ ret = <<>> /\ ret2 = <<>>
  /\ newDoc = EmptyObj /\ newDoc2 = EmptyObj
  /\ obj = EmptyObj /\ objBefore = EmptyObj /\ val = Undef /\ threw = FALSE

\* newDoc = cleanNulls(doc, isArray, keepEmptyStrings)
CleanNulls ==
  /\ pc = "start"
  /\ newDoc' = cleanNulls(doc, isArray, keepEmptyStrings)
  /\ pc' = "cleaned"
  /\ UNCHANGED <<key, affectedKey, wrapAll, ret, ret2, doc, isArray, keepEmptyStrings,
                 newDoc2, obj, objBefore, val, threw>>

\* newDoc2 = cleanNulls(newDoc, isArray, keepEmptyStrings)
CleanNullsAgain ==
  /\ pc = "cleaned"
  /\ newDoc2' = cleanNulls(newDoc, isArray, keepEmptyStrings)
  /\ pc' = "recleaned"
  /\ UNCHANGED <<key, affectedKey, wrapAll, ret, ret2, doc, isArray, keepEmptyStrings,
                 newDoc, obj, objBefore, val, threw>>

NextClean == CleanNulls \/ CleanNullsAgain

SpecClean == InitClean /\ [][NextClean]_vars

\* ---- reportNulls

InitReport ==
  /\ pc = "start"
  /\ doc \in FlatDocs
  /\ keepEmptyStrings \in BOOLEAN
  /\ isArray = FALSE
  /\ key = <<>> /\ affectedKey = <<>> /\ wrapAll = FALSE /\ ret = <<>> /\ ret2 = <<>>
  /\ newDoc = EmptyObj /\ newDoc2 = EmptyObj
  /\ obj = EmptyObj /\ objBefore = EmptyObj /\ val = Undef /\ threw = FALSE

\* newDoc = reportNulls(doc, keepEmptyStrings)
ReportNulls ==
  /\ pc = "start"
  /\ newDoc' = reportNulls(doc, keepEmptyStrings)
  /\ pc' = "reported"
  /\ UNCHANGED <<key, affectedKey, wrapAll, ret, ret2, doc, isArray, keepEmptyStrings,
                 newDoc2, obj, objBefore, val, threw>>

NextReport == ReportNulls

SpecReport == InitReport /\ [][NextReport]_vars

-----------------------------------------------------------------------------
(* Claims about the key functions.                                         *)

\* the segments of a dotted path
Segments(k) == Split(k, ".")

HasBracket(seg) == \E i \in 1..Len(seg) : seg[i] \in {"[", "]"}

\* an array-index segment: only digits
IsIndexSegment(seg) == Len(seg) > 0 /\ \A i \in 1..Len(seg) : seg[i] \in Digits

\* a positional-operator segment $[identifier], the identifier made of
\* letters and digits
IsPositionalSegment(seg) ==
  /\ Len(seg) >= 4
  /\ seg[1] = "$" /\ seg[2] = "[" /\ seg[Len(seg)] = "]"
  /\ \A i \in 3..(Len(seg) - 1) : seg[i] \notin {"[", "]", "$", "."}

\* the paths C4 is about: no bracket in a segment unless it is $[identifier]
WellFormedDotted(k) ==
  \A i \in 1..Len(Segments(k)) :
    ~HasBracket(Segments(k)[i]) \/ IsPositionalSegment(Segments(k)[i])

\* the path with the index and positional segments from the from-th on
\* replaced by $
GenericFrom(k, from) ==
  Join([i \in 1..Len(Segments(k)) |->
          IF i >= from /\ (IsIndexSegment(Segments(k)[i])
                             \/ IsPositionalSegment(Segments(k)[i]))
          THEN <<"$">> ELSE Segments(k)[i]], ".")

\* the paths C5 is about: no empty segment and no bracket
PlainDotted(k) ==
  \A i \in 1..Len(Segments(k)) :
    Len(Segments(k)[i]) > 0 /\ ~HasBracket(Segments(k)[i])

\* C2 as stated: genericKeyAffectsOtherGenericKey is true for ("a.$", "a.0"),
\* false for ("a.0", "a.$"), true for ("a", "a.b") and false for ("a.b", "a").
C2_AsStated ==
  pc = "affects" =>
    /\ (key = <<"a", ".", "$">> /\ affectedKey = <<"a", ".", "0">>) => ret = TRUE
    /\ (key = <<"a", ".", "0">> /\ affectedKey = <<"a", ".", "$">>) => ret = FALSE
    /\ (key = <<"a">> /\ affectedKey = <<"a", ".", "b">>) => ret = TRUE
    /\ (key = <<"a", ".", "b">> /\ affectedKey = <<"a">>) => ret = FALSE

\* C2 amended: genericKeyAffectsOtherGenericKey is false for ("a.$", "a.0")
\* (a key ending in ".$" affects only its own prefix, here "a"), false for
\* ("a.0", "a.$"), true for ("a", "a.b") and false for ("a.b", "a").
C2_Amended ==
  pc = "affects" =>
    /\ (key = <<"a", ".", "$">> /\ affectedKey = <<"a", ".", "0">>) => ret = FALSE
    /\ (key = <<"a", ".", "$">> /\ affectedKey = <<"a">>) => ret = TRUE
    /\ (key = <<"a", ".", "0">> /\ affectedKey = <<"a", ".", "$">>) => ret = FALSE
    /\ (key = <<"a">> /\ affectedKey = <<"a", ".", "b">>) => ret = TRUE
    /\ (key = <<"a", ".", "b">> /\ affectedKey = <<"a">>) => ret = FALSE

C2_Witness ==
  /\ pc = "affects"
  /\ key = <<"a", ".", "$">>
  /\ affectedKey = <<"a", ".", "0">>
  /\ ret = FALSE

\* C3: makeKeyGeneric is idempotent: makeKeyGeneric(makeKeyGeneric(p)) equals
\* makeKeyGeneric(p) for every string p.
C3_Idempotent == pc = "regeneric" => ret2 = ret

C3_Witness ==
  /\ pc = "regeneric"
  /\ key = <<"a", ".", "0", ".", "1", "2", ".", "b">>
  /\ ret = <<"a", ".", "$", ".", "$", ".", "b">>
  /\ ret2 = ret

\* C4 as stated: for a well-formed dotted path makeKeyGeneric replaces every
\* index segment and every $[identifier] segment by $ and leaves every other
\* segment unchanged.
C4_AsStated ==
  (pc = "generic" /\ WellFormedDotted(key)) => ret = GenericFrom(key, 1)

\* C4 amended: for a well-formed dotted path makeKeyGeneric replaces every
\* index segment and every $[identifier] segment after the first segment by
\* $, and leaves the first segment and every other segment unchanged.
C4_Amended ==
  (pc = "generic" /\ WellFormedDotted(key)) => ret = GenericFrom(key, 2)

C4_Witness ==
  /\ pc = "generic"
  /\ key = <<"0", ".", "1", "2", ".", "$", "[", "a", "]", ".", "b">>
  /\ ret = <<"0", ".", "$", ".", "$", ".", "b">>

\* C5: for a dotted path p without empty segments and without brackets,
\* stripping the brackets of keyToPosition(p) and rejoining the segments with
\* "." gives p back, with the same segments in the same order.
C5_RoundTrip ==
  (pc = "position" /\ ~wrapAll /\ PlainDotted(key)) =>
    /\ Subkeys(ret) = Segments(key)
    /\ Join(Subkeys(ret), ".") = key

C5_Witness ==
  /\ pc = "position"
  /\ ~wrapAll
  /\ key = <<"a", ".", "0", ".", "b">>
  /\ ret = <<"a", "[", "0", "]", "[", "b", "]">>

-----------------------------------------------------------------------------
(* Claims about cleanNulls and reportNulls.                                *)

\* the elements of an array in index order, holes skipped
RECURSIVE ElementsFrom(_, _)
ElementsFrom(a, i) ==
  IF i >= a.len THEN <<>>
  ELSE (IF IndexKey(i) \in ObjectKeys(a) THEN <<a.m[IndexKey(i)]>> ELSE <<>>)
       \o ElementsFrom(a, i + 1)

\* the leaves of a value, each with the chain of keys that leads to it
RECURSIVE LeafPaths(_, _)
LeafPaths(v, path) ==
  IF IsContainer(v)
  THEN UNION {LeafPaths(v.m[k], Append(path, k)) : k \in ObjectKeys(v)}
  ELSE {<<path, v>>}

\* the containers strictly below a value
RECURSIVE ContainersBelow(_)
ContainersBelow(v) ==
  IF IsContainer(v)
  THEN UNION {(IF IsContainer(v.m[k]) THEN {v.m[k]} ELSE {})
                \cup ContainersBelow(v.m[k]) : k \in ObjectKeys(v)}
  ELSE {}

NullLike(v) == v.t \in {"null", "undef"} \/ v = Str(<<>>)

\* {e: [1]}
ExampleCleaned == Obj(<<"e">> :> ArrayOf(<<Num(<<"1">>)>>))

\* C1: in array mode the kept elements occupy the indices 0..n-1 of the
\* result in their original order and the length is the number of kept
\* elements; cleanNulls of the example document is {e: [1]}.
C1_Reindexed ==
  pc = "cleaned" =>
    /\ (isArray /\ IsArrayValue(doc)) => newDoc = ArrayOf(ElementsFrom(newDoc, 0))
    /\ (doc = ExampleDoc /\ ~isArray /\ ~keepEmptyStrings) => newDoc = ExampleCleaned

\* C6: cleanNulls applied to its own result returns an equal document.
C6_FixedPoint == pc = "recleaned" => newDoc2 = newDoc

C6_Witness ==
  /\ pc = "recleaned"
  /\ doc = ExampleDoc
  /\ ~isArray
  /\ newDoc # doc
  /\ newDoc2 = newDoc

\* C7: in the result of cleanNulls no container below the root is empty, no
\* leaf is null or undefined, no leaf is the empty string unless
\* keepEmptyStrings, and every leaf of doc that is not null, undefined or the
\* empty string is kept under its chain of keys.
C7_Sanitized ==
  pc = "cleaned" =>
    /\ \A c \in ContainersBelow(newDoc) :
         ObjectKeys(c) # {} /\ (IsArrayValue(c) => c.len > 0)
    /\ \A l \in LeafPaths(newDoc, <<>>) :
         /\ l[2].t \notin {"null", "undef"}
         /\ (l[2] = Str(<<>>) => keepEmptyStrings)
    /\ \A l \in LeafPaths(doc, <<>>) :
         ~NullLike(l[2]) => l \in LeafPaths(newDoc, <<>>)

C7_Witness ==
  /\ pc = "cleaned"
  /\ doc = ExampleDoc
  /\ ~isArray
  /\ ~keepEmptyStrings
  /\ ObjectKeys(newDoc) = {<<"e">>}
  /\ <<<< <<"e">>, <<"1">> >>, Num(<<"1">>)>> \in LeafPaths(newDoc, <<>>)

\* C8: reportNulls maps to "" exactly the keys whose value is null,
\* undefined, the empty string when keepEmptyStrings is false, or an array
\* that cleanNulls in array mode leaves without elements;
\* reportNulls({a: null, b: "x", c: []}) is {a: "", c: ""}.
C8_Report ==
  pc = "reported" =>
    /\ ObjectKeys(newDoc) =
         {k \in ObjectKeys(doc) :
            \/ doc.m[k].t \in {"null", "undef"}
            \/ (doc.m[k] = Str(<<>>) /\ ~keepEmptyStrings)
            \/ /\ IsArrayValue(doc.m[k])
               /\ ObjectKeys(cleanNulls(doc.m[k], TRUE, keepEmptyStrings)) = {}}
    /\ \A k \in ObjectKeys(newDoc) : newDoc.m[k] = Str(<<>>)
    /\ isBasicObject(newDoc)
    /\ doc = ExampleFlatDoc =>
         newDoc = Obj((<<"a">> :> Str(<<>>)) @@ (<<"c">> :> Str(<<>>)))

C8_Witness ==
  /\ pc = "reported"
  /\ doc = ExampleFlatDoc
  /\ ~keepEmptyStrings
  /\ ObjectKeys(newDoc) = {<<"a">>, <<"c">>}

-----------------------------------------------------------------------------
(* expandKey and its callers.                                              *)

ExpandSegments == {<<"a">>, <<"b">>, <<"0">>}

\* the positions given to expandKey, as keyToPosition writes them
Positions ==
  {keyToPosition(Join(q, "."), FALSE) : q \in SeqsUpTo(ExpandSegments, MaxDepth)}

ExpandLeaves == {Null, Undef, Num(<<"1">>)}

\* containers holding at most one leaf
Holders ==
  {EmptyObj, EmptyArr}
    \cup {Obj(k :> l) : k \in ObjKeys, l \in ExpandLeaves}
    \cup {ArrayOf(<<l>>) : l \in ExpandLeaves}

\* what a location of the container may hold before the call
Held ==
  ExpandLeaves \cup Holders
    \cup {Obj(k :> c) : k \in ObjKeys, c \in Holders}
    \cup {ArrayOf(<<c>>) : c \in Holders}

\* the containers handed to expandKey: an object with key a and perhaps b,
\* or an array with index 0 and perhaps 1, either one perhaps unset
Containers ==
  {EmptyObj, EmptyArr, Obj(<<"b">> :> Num(<<"1">>)),
   SetProp(EmptyArr, <<"1">>, Num(<<"1">>))}
    \cup {Obj(<<"a">> :> x) : x \in Held}
    \cup {Obj((<<"a">> :> x) @@ (<<"b">> :> Num(<<"1">>))) : x \in Held}
    \cup {ArrayOf(<<x>>) : x \in Held}
    \cup {ArrayOf(<<x, Num(<<"1">>)>>) : x \in Held}

ExpandValues == {Undef, Null, Num(<<"2">>), Str(<<"x">>)}

InitExpand ==
  /\ pc = "start"
  /\ obj \in Containers
  /\ objBefore = obj
  /\ key \in Positions
  /\ val \in ExpandValues
  /\ threw = FALSE
  /\ affectedKey = <<>> /\ wrapAll = FALSE /\ ret = <<>> /\ ret2 = <<>>
  /\ doc = EmptyObj /\ isArray = FALSE /\ keepEmptyStrings = FALSE
  /\ newDoc = EmptyObj /\ newDoc2 = EmptyObj

\* expandKey(val, key, obj): obj is changed in place
ExpandKey ==
  /\ pc = "start"
  /\ obj' = expandKey(val, key, obj).v
  /\ threw' = expandKey(val, key, obj).threw
  /\ pc' = "expanded"
  /\ UNCHANGED <<key, affectedKey, wrapAll, ret, ret2, doc, isArray,
                 keepEmptyStrings, newDoc, newDoc2, objBefore, val>>

NextExpand == ExpandKey

SpecExpand == InitExpand /\ [][NextExpand]_vars

\* what following a chain of keys from a value reaches (undefined when the
\* chain leaves the containers)
RECURSIVE Follow(_, _)
Follow(v, path) ==
  IF Len(path) = 0 THEN v
  ELSE IF IsContainer(v) THEN Follow(GetProp(v, Head(path)), Tail(path))
  ELSE Undef

\* a segment that starts with a digit, so that it parses as an integer
StartsWithDigit(seg) == Len(seg) > 0 /\ seg[1] \in Digits

\* every property of `before` other than k is a property of `after` with the
\* same value, and `after` has no further property other than k
SameExcept(before, after, k) ==
  /\ ObjectKeys(after) \ {k} = ObjectKeys(before) \ {k}
  /\ \A x \in ObjectKeys(before) \ {k} : after.m[x] = before.m[x]

\* C9: with a defined val, expandKey fills each unset intermediate location
\* with an array when the next segment parses as an integer and with an
\* object otherwise, never replaces an existing intermediate container, which
\* keeps its other keys, and afterwards following the segments from obj
\* reaches val; expandKey(1, "a[b][0]", {}) gives {a: {b: [1]}}.
C9_Expanded ==
  (pc = "expanded" /\ val # Undef) =>
    LET sk == Subkeys(key)
        n == Len(sk)
    IN  /\ Follow(obj, sk) = val
        /\ \A i \in 1..(n - 1) :
             LET before == Follow(objBefore, SubSeq(sk, 1, i))
                 after == Follow(obj, SubSeq(sk, 1, i))
             IN  /\ IsContainer(before) =>
                      after.t = before.t /\ SameExcept(before, after, sk[i + 1])
                 /\ before = Undef =>
                      after.t = IF StartsWithDigit(sk[i + 1]) THEN "arr" ELSE "obj"

\* C10: expandKey(undefined, key, obj) leaves the final segment of key out of
\* its parent container, whether or not it was there, and changes no other
\* key of that parent, of obj or of a container between them.
C10_Removed ==
  (pc = "expanded" /\ val = Undef) =>
    LET sk == Subkeys(key)
        n == Len(sk)
    IN  /\ IsContainer(Follow(obj, SubSeq(sk, 1, n - 1))) =>
             sk[n] \notin ObjectKeys(Follow(obj, SubSeq(sk, 1, n - 1)))
        /\ \A i \in 1..n :
             LET before == Follow(objBefore, SubSeq(sk, 1, i - 1))
                 after == Follow(obj, SubSeq(sk, 1, i - 1))
             IN  IF IsContainer(before)
                 THEN after.t = before.t /\ SameExcept(before, after, sk[i])
                 ELSE IsContainer(after) => ObjectKeys(after) \subseteq {sk[i]}

C10_Witness ==
  /\ pc = "expanded"
  /\ val = Undef
  /\ ~threw
  /\ key = <<"a", "[", "b", "]">>
  /\ <<"b">> \in ObjectKeys(Follow(objBefore, << <<"a">> >>))
  /\ <<"b">> \notin ObjectKeys(Follow(obj, << <<"a">> >>))
  /\ IsContainer(Follow(obj, << <<"a">> >>))

====
